---- MODULE Spec2Model ----
(***************************************************************************)
(* Credential lifecycle of the SFD proxy server.                           *)
(*                                                                         *)
(* The repository holds several variants of one small proxy.  Modelled     *)
(* here:                                                                   *)
(*   "index"    src/index.js:1-728     gate middleware + per-tool routes   *)
(*   "part_004" src/unnamed/part_004   gate middleware + generic proxy     *)
(*                                      route with the 401 retry           *)
(*   "part_005" src/unnamed/part_005   the /api/tool webhook dispatcher    *)
(* The three share acquireOrRefreshToken (the same text, except for the    *)
(* bootstrap-token test, the timeouts and validateStatus of the            *)
(* validation GET).  Each variant has its specification: Spec, SpecProxy  *)
(* and SpecTool.  Further variants:                                        *)
(*   "part_002", "part_003"  the refreshToken(grantType) manager, without  *)
(*                           validation GET and timeouts (SpecManager)     *)
(*   "part_000" src/unnamed/part_000:1-413  acquireOrRefreshToken without  *)
(*                           the validation GET (SpecDirect)               *)
(*   "index_retry" src/index.js:729-1304    axios-retry on the global      *)
(*                           axios instance (SpecRetried)                  *)
(*                                                                         *)
(* Node runs one callback to completion, and drains the promise jobs it    *)
(* queued, before it takes the next I/O event.  One action is therefore    *)
(* the code that runs between two awaits of an HTTP call: the arrival of   *)
(* a request up to the first axios call, or the arrival of an upstream     *)
(* answer up to the next axios call or the response.  The awaiting caller  *)
(* of acquireOrRefreshToken (gate, 401 handler, dispatcher, app.listen)    *)
(* continues in the same step in which the function returns.               *)
(***************************************************************************)
EXTENDS Integers, FiniteSets, Sequences, TLC

\* ---------------------------------------------------------------- bounds
\* Number of inbound requests (process 0 is the app.listen callback).
NReq == 2
\* Number of inbound requests in the files whose requests live through
\* several transmissions of one call: the generic proxy routes with their
\* 401 retry, and the file that configures axios-retry.
NProxyReq == 1
\* Number of clock advances.
MaxTicks == 1

\* ------------------------------------------------------------- constants
\* 5 * 60 * 1000: the renewal skew, in ms.
SKEW_MS == 5 * 60 * 1000
\* One clock advance, in ms.
TickMs == SKEW_MS
\* Date.now() when the process starts, in ms.
StartMs == 4 * SKEW_MS

Procs == 0 .. NReq
Reqs == 1 .. NReq
ProxyReqs == 1 .. NProxyReq

\* JavaScript null and NaN; a number n of milliseconds is <<"ms", n>>.
Null == <<>>
NaN == <<"NaN">>
Ms(n) == <<"ms", n>>
IsMs(x) == Len(x) = 2
MsOf(x) == x[2]

\* The values INITIAL_REFRESH_TOKEN can have: the environment's value, the
\* built-in default of the file, or the placeholder text.
ENV_TOKEN == <<"R", "env">>
DEFAULT_TOKEN == <<"R", "default">>
PLACEHOLDER == <<"R", "YOUR_FRESH_REFRESH_TOKEN_HERE">>
InitialTokens == {ENV_TOKEN, DEFAULT_TOKEN, PLACEHOLDER}

\* expires_in values of a token response, in seconds.
ExpiresIn == {600, 900}

VARIABLES
    variant,                \* which file runs
    INITIAL_REFRESH_TOKEN,  \* configuration
    tokenStore,             \* [accessToken, refreshToken, expiresAt]
    now,                    \* Date.now()
    ticks,                  \* clock advances so far
    proc,                   \* per process: position and locals
    storedVia,              \* validation status behind tokenStore.accessToken
    storedFrom              \* <<Date.now(), expires_in>> of the commit behind it

vars == <<variant, INITIAL_REFRESH_TOKEN, tokenStore, now,
          ticks, proc, storedVia, storedFrom>>

\* expires_in of a token response: <<"s", n>> for n seconds.
Sec(n) == <<"s", n>>
ExpiresInValues == {Sec(e) : e \in ExpiresIn}

\* The access token and the refresh token the token endpoint hands out in
\* answer to the n-th token request of process i (opaque, pairwise distinct).
AccessTokenOf(i, n) == <<"A", i, n>>
RefreshTokenOf(i, n) == <<"R", i, n>>

Bearer(token) == <<"Bearer", token>>

\* What an inbound request carries in its Authorization header: nothing,
\* or a credential of the caller's own making.
CallerToken == <<"caller">>
CallerHeaders == {Null, Bearer(CallerToken)}
NoGrant == [grant_type |-> "none", refresh_token |-> Null]
NoResponse == [status |-> 0, kind |-> "none"]
NoCand == [access_token |-> Null, refresh_token |-> Null, expires_in |-> Null]

\* What the token endpoint can answer to the n-th token request of process
\* i: a token response with or without refresh_token; 200 with an error
\* object beside the token; 200 with an error object alone; 200 without
\* access_token; another 2xx status; a rejection; status 0 for a network
\* error or a timeout (axios rejects).
TokenResponses(i, n) ==
    {[status |-> 200, access_token |-> AccessTokenOf(i, n), error |-> FALSE,
      refresh_token |-> rt, expires_in |-> e] :
        rt \in {Null, RefreshTokenOf(i, n)}, e \in ExpiresInValues}
    \cup
    {[status |-> 200, access_token |-> AccessTokenOf(i, n), error |-> TRUE,
      refresh_token |-> Null, expires_in |-> Null],
     [status |-> 200, access_token |-> Null, error |-> TRUE,
      refresh_token |-> Null, expires_in |-> Null],
     [status |-> 200, access_token |-> Null, error |-> FALSE,
      refresh_token |-> Null, expires_in |-> Null],
     [status |-> 201, access_token |-> AccessTokenOf(i, n), error |-> FALSE,
      refresh_token |-> Null, expires_in |-> Null],
     [status |-> 400, access_token |-> Null, error |-> TRUE,
      refresh_token |-> Null, expires_in |-> Null],
     [status |-> 0, access_token |-> Null, error |-> FALSE,
      refresh_token |-> Null, expires_in |-> Null]}

\* Statuses of the validation GET and of a business call (0: network error).
ValidationStatuses == {200, 204, 403, 500, 0}
BusinessStatuses == {200, 401, 404, 500, 0}
BusinessResponses ==
    {[status |-> st, dataError |-> de] : st \in BusinessStatuses, de \in BOOLEAN}

\* The files whose requests end in per-tool routes (/api/createPatient and
\* the like): index.js:258-719, index.js:925-1273 and part_000:195-369.
PerToolRoutes == {"index", "index_retry", "part_000"}

\* Bodies of a request as its route handler tells them apart when the gate
\* calls next(): the per-tool routes validate the fields of the body, the
\* generic proxy route forwards any body.  The gate itself does not read
\* the body.
Bodies(v) == IF v \in PerToolRoutes THEN {"valid", "invalid"} ELSE {"any"}

\* Bodies of a webhook as /api/tool tells them apart on arrival.
ToolBodies == {"empty", "malformed", "other", "missing", "known", "unknown"}

IdleProc ==
    [pc |-> "idle", phase |-> "none", body |-> "none", grant |-> NoGrant,
     cand |-> NoCand, auth |-> Null, calls |-> 0, forced |-> 0, posts |-> 0,
     gets |-> 0, gate |-> "none", acq |-> "none", rtEntry |-> Null,
     resp |-> NoResponse, sent |-> 0, retryCount |-> 0, inbound |-> Null]

EmptyStore == [accessToken |-> Null, refreshToken |-> Null, expiresAt |-> Null]

\* ------------------------------------------------------------ TokenCache

\* Mutant of CacheValid: the fast path demands twice the renewal skew.
CacheValid_WiderSkew(ts, t) ==
    /\ ts.accessToken # Null
    /\ IsMs(ts.expiresAt)
    /\ t < MsOf(ts.expiresAt) - 2 * SKEW_MS

\* index.js:56 - the fast-path test (without the !forceRefresh conjunct).
\* A null or NaN expiresAt is falsy; a stored number is positive here.
CacheValid(ts, t) ==
    /\ ts.accessToken # Null
    /\ IsMs(ts.expiresAt)
    /\ t < MsOf(ts.expiresAt) - SKEW_MS

\* Mutant of ExpiresAt: the renewal skew is not subtracted at commit.
ExpiresAt_NoSkew(t, e) ==
    IF e = Null THEN NaN ELSE Ms(t + e[2] * 1000)

\* index.js:137 - Date.now() + expires_in * 1000 - 5 min; NaN when
\* expires_in is absent (undefined * 1000).
ExpiresAt(t, e) ==
    IF e = Null THEN NaN ELSE Ms(t + e[2] * 1000 - SKEW_MS)

\* Mutant of Commit: the access token is stored first and expiresAt is left
\* for later.
Commit_AccessOnly(ts, d, t) ==
    [accessToken |-> d.access_token,
     expiresAt |-> ts.expiresAt,
     refreshToken |-> IF d.refresh_token # Null THEN d.refresh_token
                      ELSE ts.refreshToken]

\* index.js:135-140 - the commit of a validated token response.
Commit(ts, d, t) ==
    [accessToken |-> d.access_token,
     expiresAt |-> ExpiresAt(t, d.expires_in),
     refreshToken |-> IF d.refresh_token # Null THEN d.refresh_token
                      ELSE ts.refreshToken]

\* Mutant of Cleared: the catch block forgets to reset refreshToken.
Cleared_KeepsRefresh(ts) ==
    [ts EXCEPT !.accessToken = Null, !.expiresAt = Null]

\* index.js:154-156 - the catch block.
Cleared(ts) == EmptyStore

\* -------------------------------------------------------- CredentialSource

\* Mutant of BootstrapUsable: the configured bootstrap token is never used.
BootstrapUsable_Never(v, initial) == FALSE

\* index.js:65 / part_005:79 - whether INITIAL_REFRESH_TOKEN is used when the
\* cache holds no refresh token.  It is always a non-empty string (env value
\* or built-in default); each file excludes one literal.
BootstrapUsable(v, initial) ==
    IF v = "part_005" THEN initial # DEFAULT_TOKEN ELSE initial # PLACEHOLDER

\* Mutant of SelectGrant: the bootstrap token is preferred to the cached one.
SelectGrant_BootstrapFirst(v, rt, initial) ==
    IF BootstrapUsable(v, initial)
    THEN [grant_type |-> "refresh_token", refresh_token |-> initial]
    ELSE IF rt = Null
         THEN [grant_type |-> "password", refresh_token |-> Null]
         ELSE [grant_type |-> "refresh_token", refresh_token |-> rt]

\* index.js:61-72 - grant selection.
SelectGrant(v, rt, initial) ==
    IF rt = Null /\ BootstrapUsable(v, initial)
    THEN [grant_type |-> "refresh_token", refresh_token |-> initial]
    ELSE IF rt = Null
         THEN [grant_type |-> "password", refresh_token |-> Null]
         ELSE [grant_type |-> "refresh_token", refresh_token |-> rt]

\* Mutant of GrantOk: an error object beside the access token is ignored.
GrantOk_IgnoresError(r) == r.status = 200 /\ r.access_token # Null

\* index.js:117-121 - a token response that goes on to validation.
GrantOk(r) == r.status = 200 /\ r.access_token # Null /\ ~r.error

\* Mutant of ValidationOk: any 2xx status of the validation GET is accepted.
ValidationOk_Any2xx(st) == st >= 200 /\ st < 300

\* index.js:133 - the validation verdict.
ValidationOk(st) == st = 200

\* ------------------------------------------------------ response envelope

\* index.js:164 - handleSfdResponse: error entry or result entry.
HandleSfdResponse(status, dataError) ==
    IF status >= 400 \/ dataError THEN "error" ELSE "result"

\* Mutant of Respond: the response is sent without a return, and the
\* handler goes on from where it was.
Respond_KeepsRunning(p, s, k) ==
    [p EXCEPT !.resp = [status |-> s, kind |-> k], !.sent = @ + 1]

\* res.status(s).json(...) / res.status(s).send(...): the handler ends and
\* the request object, with its headers and the handler's locals, is
\* dropped.
Respond(p, s, k) ==
    [p EXCEPT !.pc = "done", !.resp = [status |-> s, kind |-> k],
              !.sent = @ + 1, !.grant = NoGrant, !.cand = NoCand,
              !.rtEntry = Null, !.auth = Null, !.body = "none",
              !.calls = 0, !.forced = 0, !.posts = 0, !.gets = 0,
              !.inbound = Null]

\* An upstream business call leaves with the given Authorization header.
IssueCall(p, header, where) ==
    [p EXCEPT !.pc = where, !.calls = @ + 1, !.auth = header,
              !.grant = NoGrant, !.cand = NoCand, !.rtEntry = Null]

\* index.js:258-356 (createPatient and the other per-tool routes) and
\* part_004:244-304 (generic proxy route) up to the first upstream call.
Handler(v, p, body) ==
    IF v \in PerToolRoutes /\ body = "invalid"
    THEN Respond(p, 200, "error")
    ELSE IssueCall(p, p.auth, "calling")

\* Mutant of GateHeader: the gate fills the header in only when the
\* request carries none.
GateHeader_KeepsCaller(p, ts) ==
    IF p.auth # Null THEN p.auth ELSE Bearer(ts.accessToken)

\* index.js:222 / part_004:228 - the value the gate assigns to
\* req.headers.authorization, whatever the request carried there.
GateHeader(p, ts) == Bearer(ts.accessToken)

\* Mutant of Gate: next() is called whatever the acquisition returned.
Gate_IgnoresResult(v, p, ok, ts, body) ==
    Handler(v, [p EXCEPT !.gate = IF ok THEN "true" ELSE "false",
                         !.auth = Bearer(ts.accessToken)], body)

\* index.js:208-234 - the gate middleware after acquireOrRefreshToken
\* returned ok, with the store as the acquisition left it; next() runs the
\* route handler on the request's body.
Gate(v, p, ok, ts, body) ==
    IF ~ok
    THEN Respond([p EXCEPT !.gate = "false"], 200, "error")
    ELSE Handler(v, [p EXCEPT !.gate = "true",
                              !.auth = GateHeader(p, ts)], body)

\* Mutant of Retry401: the retried call is handled like a first call, so
\* that another 401 starts another forced refresh.
Retry401_Loops(p, ok, ts) ==
    IF ok
    THEN IssueCall(p, Bearer(ts.accessToken), "calling")
    ELSE Respond(p, 200, "error")

\* part_004:316-334 - the 401 handler after acquireOrRefreshToken(true)
\* returned ok.
Retry401(p, ok, ts) ==
    IF ok
    THEN IssueCall(p, Bearer(ts.accessToken), "retrying")
    ELSE Respond(p, 200, "error")

\* part_005:374-419 - the dispatcher after acquireOrRefreshToken returned
\* ok; the tool functions read tokenStore.accessToken when they send.
Dispatch(p, ok, ts) ==
    IF ~ok
    THEN Respond([p EXCEPT !.gate = "false"], 200, "error")
    ELSE IF p.body = "unknown"
         THEN Respond([p EXCEPT !.gate = "true"], 200, "error")
         ELSE IssueCall([p EXCEPT !.gate = "true"],
                        Bearer(ts.accessToken), "calling")

\* The caller that awaited acquireOrRefreshToken resumes with its result.
Continue(v, p, ok, ts, body) ==
    LET q == [p EXCEPT !.acq = IF ok THEN "true" ELSE "false"] IN
    CASE q.phase = "init" ->
             [q EXCEPT !.pc = "done", !.grant = NoGrant, !.cand = NoCand,
                       !.rtEntry = Null, !.posts = 0, !.gets = 0]
      [] q.phase = "gate" -> Gate(v, q, ok, ts, body)
      [] q.phase = "retry" -> Retry401(q, ok, ts)
      [] q.phase = "dispatch" -> Dispatch(q, ok, ts)


\* --------------------------------------------------------- TokenAcquirer

\* Mutant of BeginAcquire: once an acquisition has failed, later calls
\* return false without an attempt.
BeginAcquire_GivesUp(i, p, force, body) ==
    LET g == SelectGrant(variant, tokenStore.refreshToken, INITIAL_REFRESH_TOKEN) IN
    IF CacheValid(tokenStore, now) /\ ~force
    THEN /\ proc' = [proc EXCEPT ![i] =
                        Continue(variant, p, TRUE, tokenStore, body)]
         /\ UNCHANGED <<tokenStore, storedVia, storedFrom>>
    ELSE IF \E j \in Procs : proc[j].acq = "false"
    THEN /\ proc' = [proc EXCEPT ![i] =
                        Continue(variant, p, FALSE, tokenStore, body)]
         /\ UNCHANGED <<tokenStore, storedVia, storedFrom>>
    ELSE /\ proc' = [proc EXCEPT ![i] =
                        [p EXCEPT !.pc = "tokenPost", !.grant = g,
                                  !.posts = @ + 1,
                                  !.rtEntry = tokenStore.refreshToken]]
         /\ UNCHANGED <<tokenStore, storedVia, storedFrom>>

\* index.js:52-112 - acquireOrRefreshToken(force) called by process i, whose
\* record (phase set by the caller) is p, up to the token POST: the fast
\* path returns true to the caller at once; otherwise the grant is chosen
\* and the POST leaves.  (Lines 88-91, a refresh_token grant without a
\* token, return false without touching the store.)  body is the body the
\* caller's route handler reads if the acquisition returns in this step.
BeginAcquire(i, p, force, body) ==
    LET g == SelectGrant(variant, tokenStore.refreshToken, INITIAL_REFRESH_TOKEN) IN
    IF CacheValid(tokenStore, now) /\ ~force
    THEN /\ proc' = [proc EXCEPT ![i] =
                        Continue(variant, p, TRUE, tokenStore, body)]
         /\ UNCHANGED <<tokenStore, storedVia, storedFrom>>
    ELSE IF g.grant_type = "refresh_token" /\ g.refresh_token = Null
    THEN /\ proc' = [proc EXCEPT ![i] =
                        Continue(variant, p, FALSE, tokenStore, body)]
         /\ UNCHANGED <<tokenStore, storedVia, storedFrom>>
    ELSE /\ proc' = [proc EXCEPT ![i] =
                        [p EXCEPT !.pc = "tokenPost", !.grant = g,
                                  !.posts = @ + 1,
                                  !.rtEntry = tokenStore.refreshToken]]
         /\ UNCHANGED <<tokenStore, storedVia, storedFrom>>

\* Mutant of FailAcquire: a failed refresh_token grant is followed, within
\* the same invocation, by a password grant.
FailAcquire_FallsBack(i, p) ==
    /\ tokenStore' = Cleared(tokenStore)
    /\ storedVia' = 0
    /\ storedFrom' = Null
    /\ proc' = [proc EXCEPT ![i] =
                   IF p.grant.grant_type = "refresh_token"
                   THEN [p EXCEPT !.pc = "tokenPost", !.cand = NoCand,
                                  !.posts = @ + 1,
                                  !.grant = [grant_type |-> "password",
                                             refresh_token |-> Null]]
                   ELSE Continue(variant, p, FALSE, tokenStore', "none")]

\* index.js:151-158 - the catch block: clear the store, return false.  No
\* caller reads the request's body after a failed acquisition.
FailAcquire(i, p) ==
    /\ tokenStore' = Cleared(tokenStore)
    /\ storedVia' = 0
    /\ storedFrom' = Null
    /\ proc' = [proc EXCEPT ![i] =
                   Continue(variant, p, FALSE, tokenStore', "none")]

\* index.js:721-728 - the app.listen callback: the initial acquisition.
Startup ==
    /\ proc[0].pc = "idle"
    /\ BeginAcquire(0, [proc[0] EXCEPT !.phase = "init"], FALSE, "none")
    /\ UNCHANGED <<variant, INITIAL_REFRESH_TOKEN, now, ticks>>

\* index.js:208-210 - a request enters the gate middleware.  The server
\* listens, and the app.listen callback has run up to its first await,
\* before a request can arrive; requests are numbered in the order they
\* arrive.
GateArrive(i, body) ==
    /\ variant \in {"index", "part_004", "part_000", "index_retry"}
    /\ proc[i].pc = "idle"
    /\ \A j \in Procs : j < i => proc[j].pc # "idle"
    /\ BeginAcquire(i, [proc[i] EXCEPT !.phase = "gate"], FALSE, body)
    /\ UNCHANGED <<variant, INITIAL_REFRESH_TOKEN, now, ticks>>

\* index.js:113-131 - the token endpoint has answered (or the request
\* failed): go on to the validation GET, or fail.
TokenResponse(i, r) ==
    /\ proc[i].pc = "tokenPost"
    /\ IF GrantOk(r)
       THEN /\ proc' = [proc EXCEPT ![i] =
                         [@ EXCEPT !.pc = "validating", !.gets = @ + 1,
                                   !.cand = [access_token |-> r.access_token,
                                             refresh_token |-> r.refresh_token,
                                             expires_in |-> r.expires_in]]]
            /\ UNCHANGED <<tokenStore, storedVia, storedFrom>>
       ELSE FailAcquire(i, proc[i])
    /\ UNCHANGED <<variant, INITIAL_REFRESH_TOKEN, now, ticks>>

\* index.js:131-145 - the validation GET has answered (or failed): commit
\* and return true, or throw into the catch block.  body is the body the
\* caller's route handler reads on a return of true.
ValidationResponse(i, st, body) ==
    /\ proc[i].pc = "validating"
    /\ IF ValidationOk(st)
       THEN /\ tokenStore' = Commit(tokenStore, proc[i].cand, now)
            /\ storedVia' = st
            /\ storedFrom' = <<now, proc[i].cand.expires_in>>
            /\ proc' = [proc EXCEPT ![i] =
                          Continue(variant, proc[i], TRUE, tokenStore', body)]
       ELSE FailAcquire(i, proc[i])
    /\ UNCHANGED <<variant, INITIAL_REFRESH_TOKEN, now, ticks>>

\* index.js:343-355 with handleSfdResponse / handleProxyError: the answer to
\* the business call of a per-tool route.  axios rejects a status outside
\* 2xx, and handleProxyError reports it.
ToolRouteResponse(i, r) ==
    /\ variant \in {"index", "part_000"}
    /\ proc[i].pc = "calling"
    /\ proc' = [proc EXCEPT ![i] =
                  IF r.status >= 200 /\ r.status < 300
                  THEN Respond(@, 200, HandleSfdResponse(r.status, r.dataError))
                  ELSE Respond(@, 200, "error")]
    /\ UNCHANGED <<variant, INITIAL_REFRESH_TOKEN,
                   tokenStore, now, ticks, storedVia, storedFrom>>

\* Mutant of ProxyResponse: the 401 handler calls acquireOrRefreshToken
\* without the force flag.
ProxyResponse_NoForce(i, r) ==
    /\ variant = "part_004"
    /\ proc[i].pc = "calling"
    /\ IF r.status = 401
       THEN BeginAcquire(i, [proc[i] EXCEPT !.phase = "retry",
                                            !.forced = @ + 1], FALSE, "none")
       ELSE /\ proc' = [proc EXCEPT ![i] =
                  IF r.status >= 200 /\ r.status < 500
                  THEN Respond(@, 200, HandleSfdResponse(r.status, r.dataError))
                  ELSE Respond(@, 200, "error")]
            /\ UNCHANGED <<tokenStore, storedVia, storedFrom>>
    /\ UNCHANGED <<variant, INITIAL_REFRESH_TOKEN, now, ticks>>

\* part_004:304-366 - the answer to the first upstream call of the generic
\* proxy route: 401 starts acquireOrRefreshToken(true).
ProxyResponse(i, r) ==
    /\ variant = "part_004"
    /\ proc[i].pc = "calling"
    /\ IF r.status = 401
       THEN BeginAcquire(i, [proc[i] EXCEPT !.phase = "retry",
                                            !.forced = @ + 1], TRUE, "none")
       ELSE /\ proc' = [proc EXCEPT ![i] =
                  IF r.status >= 200 /\ r.status < 500
                  THEN Respond(@, 200, HandleSfdResponse(r.status, r.dataError))
                  ELSE Respond(@, 200, "error")]
            /\ UNCHANGED <<tokenStore, storedVia, storedFrom>>
    /\ UNCHANGED <<variant, INITIAL_REFRESH_TOKEN, now, ticks>>

\* Mutant of RetryResponse: a second 401 makes the handler drop the cached
\* token.
RetryResponse_DropsToken(i, r) ==
    /\ proc[i].pc = "retrying"
    /\ proc' = [proc EXCEPT ![i] =
                  IF r.status >= 200 /\ r.status < 500
                  THEN Respond(@, 200, HandleSfdResponse(r.status, r.dataError))
                  ELSE Respond(@, 200, "error")]
    /\ tokenStore' = IF r.status = 401 THEN EmptyStore ELSE tokenStore
    /\ UNCHANGED <<variant, INITIAL_REFRESH_TOKEN,
                   now, ticks, storedVia, storedFrom>>

\* part_004:322-323, 341-366 - the answer to the retried call.
RetryResponse(i, r) ==
    /\ proc[i].pc = "retrying"
    /\ proc' = [proc EXCEPT ![i] =
                  IF r.status >= 200 /\ r.status < 500
                  THEN Respond(@, 200, HandleSfdResponse(r.status, r.dataError))
                  ELSE Respond(@, 200, "error")]
    /\ UNCHANGED <<variant, INITIAL_REFRESH_TOKEN,
                   tokenStore, now, ticks, storedVia, storedFrom>>

\* Date.now() advances.
Tick ==
    /\ ticks < MaxTicks
    /\ ticks' = ticks + 1
    /\ now' = now + TickMs
    /\ UNCHANGED <<variant, INITIAL_REFRESH_TOKEN,
                   tokenStore, proc, storedVia, storedFrom>>

InitCommon ==
    /\ tokenStore = EmptyStore
    /\ now = StartMs
    /\ ticks = 0
    /\ proc = [i \in Procs |-> IdleProc]
    /\ storedVia = 0
    /\ storedFrom = Null

\* index.js (lines 1-728): the gate and the per-tool routes.  index.js and
\* part_004 treat every value of INITIAL_REFRESH_TOKEN but the placeholder
\* text alike.
Init ==
    /\ variant = "index"
    /\ INITIAL_REFRESH_TOKEN \in {DEFAULT_TOKEN, PLACEHOLDER}
    /\ InitCommon

Next ==
    \/ Startup
    \/ \E i \in Reqs : \E body \in Bodies(variant) : GateArrive(i, body)
    \/ \E i \in Procs : \E r \in TokenResponses(i, proc[i].posts) : TokenResponse(i, r)
    \/ \E i \in Procs : \E st \in ValidationStatuses :
          \E body \in Bodies(variant) : ValidationResponse(i, st, body)
    \/ \E i \in Reqs : \E r \in BusinessResponses : ToolRouteResponse(i, r)
    \/ Tick

Spec == Init /\ [][Next]_vars


\* ----------------------------------------- part_004: generic proxy route

InitProxy ==
    /\ variant = "part_004"
    /\ INITIAL_REFRESH_TOKEN \in {DEFAULT_TOKEN, PLACEHOLDER}
    /\ InitCommon

NextProxy ==
    \/ Startup
    \/ \E i \in ProxyReqs : \E body \in Bodies(variant) : GateArrive(i, body)
    \/ \E i \in Procs : \E r \in TokenResponses(i, proc[i].posts) : TokenResponse(i, r)
    \/ \E i \in Procs : \E st \in ValidationStatuses :
          \E body \in Bodies(variant) : ValidationResponse(i, st, body)
    \/ \E i \in ProxyReqs : \E r \in BusinessResponses : ProxyResponse(i, r)
    \/ \E i \in ProxyReqs : \E r \in BusinessResponses : RetryResponse(i, r)
    \/ Tick

SpecProxy == InitProxy /\ [][NextProxy]_vars


\* index.js:208-223 / part_004:213-229 - a request arrives at the gate with
\* the Authorization header h of its caller in req.headers.authorization.
\* inbound remembers what the caller sent for as long as the request is
\* served.
CallerArrive(i, body, h) ==
    /\ variant \in {"index", "part_004"}
    /\ proc[i].pc = "idle"
    /\ \A j \in Procs : j < i => proc[j].pc # "idle"
    /\ BeginAcquire(i, [proc[i] EXCEPT !.phase = "gate", !.auth = h,
                                       !.inbound = h], FALSE, body)
    /\ UNCHANGED <<variant, INITIAL_REFRESH_TOKEN, now, ticks>>

\* The gated servers with callers that choose their Authorization header,
\* started without INITIAL_REFRESH_TOKEN in the environment (index.js:29 /
\* part_004:26 fall back to the built-in token).
InitCaller ==
    /\ variant \in {"index", "part_004"}
    /\ INITIAL_REFRESH_TOKEN = DEFAULT_TOKEN
    /\ InitCommon

NextCaller ==
    \/ Startup
    \/ \E i \in ProxyReqs : \E body \in Bodies(variant) :
          \E h \in CallerHeaders : CallerArrive(i, body, h)
    \/ \E i \in Procs : \E r \in TokenResponses(i, proc[i].posts) : TokenResponse(i, r)
    \/ \E i \in Procs : \E st \in ValidationStatuses :
          \E body \in Bodies(variant) : ValidationResponse(i, st, body)
    \/ \E i \in ProxyReqs : \E r \in BusinessResponses : ToolRouteResponse(i, r)
    \/ \E i \in ProxyReqs : \E r \in BusinessResponses : ProxyResponse(i, r)
    \/ \E i \in ProxyReqs : \E r \in BusinessResponses : RetryResponse(i, r)
    \/ Tick

SpecCaller == InitCaller /\ [][NextCaller]_vars

\* ------------------------------------------- part_005: /api/tool dispatcher

\* part_005:345-383 - a webhook arrives at /api/tool: the body checks, then
\* acquireOrRefreshToken().
ToolArrive(i, b) ==
    /\ variant = "part_005"
    /\ proc[i].pc = "idle"
    /\ \A j \in Procs : j < i => proc[j].pc # "idle"
    /\ CASE b = "empty" ->
              /\ proc' = [proc EXCEPT ![i] = Respond(@, 200, "text")]
              /\ UNCHANGED <<tokenStore, storedVia, storedFrom>>
         [] b = "malformed" ->
              /\ proc' = [proc EXCEPT ![i] = Respond(@, 400, "text")]
              /\ UNCHANGED <<tokenStore, storedVia, storedFrom>>
         [] b = "missing" ->
              /\ proc' = [proc EXCEPT ![i] = Respond(@, 400, "json")]
              /\ UNCHANGED <<tokenStore, storedVia, storedFrom>>
         [] b = "other" ->
              /\ proc' = [proc EXCEPT ![i] = Respond(@, 200, "text")]
              /\ UNCHANGED <<tokenStore, storedVia, storedFrom>>
         [] b \in {"known", "unknown"} ->
              BeginAcquire(i, [proc[i] EXCEPT !.phase = "dispatch",
                                              !.body = b], FALSE, "none")
    /\ UNCHANGED <<variant, INITIAL_REFRESH_TOKEN, now, ticks>>

\* part_005:235-244, 420-439 - the answer to a tool function's call.  The
\* tool function returns only response.data of a status in 200..499 and the
\* dispatcher passes status 200 to handleSfdResponse; a status outside
\* that range rejects with error.response set, a network error without.
ToolResponse(i, r) ==
    /\ variant = "part_005"
    /\ proc[i].pc = "calling"
    /\ proc' = [proc EXCEPT ![i] =
                  IF r.status >= 200 /\ r.status < 500
                  THEN Respond(@, 200, HandleSfdResponse(200, r.dataError))
                  ELSE IF r.status # 0
                  THEN Respond(@, 200, HandleSfdResponse(r.status, r.dataError))
                  ELSE Respond(@, 200, "error")]
    /\ UNCHANGED <<variant, INITIAL_REFRESH_TOKEN,
                   tokenStore, now, ticks, storedVia, storedFrom>>

InitTool ==
    /\ variant = "part_005"
    /\ INITIAL_REFRESH_TOKEN \in InitialTokens
    /\ InitCommon

NextTool ==
    \/ Startup
    \/ \E i \in Reqs : \E b \in ToolBodies : ToolArrive(i, b)
    \/ \E i \in Procs : \E r \in TokenResponses(i, proc[i].posts) : TokenResponse(i, r)
    \/ \E i \in Procs : \E st \in ValidationStatuses :
          \E body \in Bodies(variant) : ValidationResponse(i, st, body)
    \/ \E i \in Reqs : \E r \in BusinessResponses : ToolResponse(i, r)
    \/ Tick

SpecTool == InitTool /\ [][NextTool]_vars

\* ------------- part_002 (lines 1-372) and part_003: the refreshToken manager

\* part_003:99 / part_002:195 - the gate's test: no access token, or
\* Date.now() >= expiresAt (false for NaN; null compares as 0).
Expired(ts, t) ==
    \/ ts.accessToken = Null
    \/ ts.expiresAt = Null
    \/ IsMs(ts.expiresAt) /\ t >= MsOf(ts.expiresAt)

\* part_003:88-93 / part_002:114-138 - the catch block of refreshToken:
\* part_003 keeps refreshToken, part_002 clears it as well.
Invalidated(v, ts) ==
    IF v = "part_003"
    THEN [ts EXCEPT !.accessToken = Null, !.expiresAt = Null]
    ELSE EmptyStore

\* part_003:60-72 / part_002:84-97 - a token response that is committed:
\* axios resolves a 2xx status, and the body holds access_token.
Granted(r) == r.status >= 200 /\ r.status < 300 /\ r.access_token # Null

\* part_003:38-58 / part_002:49-71 - the grant refreshToken(grantType)
\* sends; without a cached refresh token part_002 falls back to the
\* password grant (line 63) and part_003 has none to send (line 50).
ManagerGrant(v, grantType, rt) ==
    IF grantType = "password" \/ (rt = Null /\ v = "part_002")
    THEN [grant_type |-> "password", refresh_token |-> Null]
    ELSE [grant_type |-> "refresh_token", refresh_token |-> rt]

\* Mutant of ManagerRetry401: a failed refresh is followed by the retry all
\* the same.
ManagerRetry401_Always(v, p, ok, ts) ==
    IssueCall(p, IF v = "part_003" THEN p.auth ELSE Bearer(ts.accessToken),
              "retrying")

\* part_003:203-219 / part_002:298-317 - the 401 handler after
\* refreshToken('refresh_token') returned ok.  part_003 sets
\* req.headers.authorization, while axiosConfig.headers is the copy made at
\* line 137; part_002 sets axiosConfig.headers.authorization.
ManagerRetry401(v, p, ok, ts) ==
    IF ok
    THEN IssueCall(p, IF v = "part_003" THEN p.auth ELSE Bearer(ts.accessToken),
                   "retrying")
    ELSE Respond(p, 200, "error")

\* The caller that awaited refreshToken resumes with its result.
ManagerContinue(v, p, ok, ts) ==
    LET q == [p EXCEPT !.acq = IF ok THEN "true" ELSE "false"] IN
    CASE q.phase = "init" ->
             [q EXCEPT !.pc = "done", !.grant = NoGrant, !.rtEntry = Null,
                       !.posts = 0]
      [] q.phase = "gate" -> Gate(v, q, ok, ts, "any")
      [] q.phase = "retry" -> ManagerRetry401(v, q, ok, ts)

\* part_003:88-93 - the catch block: invalidate, return false.
ManagerFail(i, p) ==
    /\ tokenStore' = Invalidated(variant, tokenStore)
    /\ storedVia' = 0
    /\ storedFrom' = Null
    /\ proc' = [proc EXCEPT ![i] =
                   ManagerContinue(variant, p, FALSE, tokenStore')]

\* part_003:34-68 - refreshToken(grantType) called by process i, up to the
\* token POST, or to the catch block when there is no token to send.
RefreshToken(i, p, grantType) ==
    LET g == ManagerGrant(variant, grantType, tokenStore.refreshToken) IN
    IF g.grant_type = "refresh_token" /\ g.refresh_token = Null
    THEN ManagerFail(i, p)
    ELSE /\ proc' = [proc EXCEPT ![i] =
                        [p EXCEPT !.pc = "tokenPost", !.grant = g,
                                  !.posts = @ + 1,
                                  !.rtEntry = tokenStore.refreshToken]]
         /\ UNCHANGED <<tokenStore, storedVia, storedFrom>>

\* part_003:300-307 - the app.listen callback: refreshToken('password').
ManagerStartup ==
    /\ proc[0].pc = "idle"
    /\ RefreshToken(0, [proc[0] EXCEPT !.phase = "init"], "password")
    /\ UNCHANGED <<variant, INITIAL_REFRESH_TOKEN, now, ticks>>

\* part_003:97-117 - a request enters the gate middleware: refreshToken is
\* called only when the token is missing or expired.
ManagerArrive(i) ==
    /\ proc[i].pc = "idle"
    /\ \A j \in Procs : j < i => proc[j].pc # "idle"
    /\ IF Expired(tokenStore, now)
       THEN RefreshToken(i, [proc[i] EXCEPT !.phase = "gate"],
                         IF tokenStore.refreshToken # Null
                         THEN "refresh_token" ELSE "password")
       ELSE /\ proc' = [proc EXCEPT ![i] =
                          Gate(variant, [@ EXCEPT !.phase = "gate"], TRUE,
                               tokenStore, "any")]
            /\ UNCHANGED <<tokenStore, storedVia, storedFrom>>
    /\ UNCHANGED <<variant, INITIAL_REFRESH_TOKEN, now, ticks>>

\* part_003:70-93 - the token endpoint has answered (or the request
\* failed): commit and return true; return false when access_token is
\* missing; the catch block when axios rejects.
ManagerTokenResponse(i, r) ==
    /\ proc[i].pc = "tokenPost"
    /\ IF Granted(r)
       THEN /\ tokenStore' = Commit(tokenStore, r, now)
            /\ storedVia' = 0
            /\ storedFrom' = <<now, r.expires_in>>
            /\ proc' = [proc EXCEPT ![i] =
                          ManagerContinue(variant, proc[i], TRUE, tokenStore')]
       ELSE IF r.status >= 200 /\ r.status < 300
       THEN /\ proc' = [proc EXCEPT ![i] =
                          ManagerContinue(variant, proc[i], FALSE, tokenStore)]
            /\ UNCHANGED <<tokenStore, storedVia, storedFrom>>
       ELSE ManagerFail(i, proc[i])
    /\ UNCHANGED <<variant, INITIAL_REFRESH_TOKEN, now, ticks>>

\* part_003:195-249 - the answer to the first upstream call of the proxy
\* route: 401 starts refreshToken('refresh_token').
ManagerResponse(i, r) ==
    /\ proc[i].pc = "calling"
    /\ IF r.status = 401
       THEN RefreshToken(i, [proc[i] EXCEPT !.phase = "retry",
                                            !.forced = @ + 1],
                         "refresh_token")
       ELSE /\ proc' = [proc EXCEPT ![i] =
                  IF r.status >= 200 /\ r.status < 500
                  THEN Respond(@, 200, HandleSfdResponse(r.status, r.dataError))
                  ELSE Respond(@, 200, "error")]
            /\ UNCHANGED <<tokenStore, storedVia, storedFrom>>
    /\ UNCHANGED <<variant, INITIAL_REFRESH_TOKEN, now, ticks>>

\* The files have no INITIAL_REFRESH_TOKEN; the variable keeps one value.
InitManager ==
    /\ variant \in {"part_002", "part_003"}
    /\ INITIAL_REFRESH_TOKEN = PLACEHOLDER
    /\ InitCommon

NextManager ==
    \/ ManagerStartup
    \/ \E i \in ProxyReqs : ManagerArrive(i)
    \/ \E i \in Procs : \E r \in TokenResponses(i, proc[i].posts) :
          ManagerTokenResponse(i, r)
    \/ \E i \in ProxyReqs : \E r \in BusinessResponses : ManagerResponse(i, r)
    \/ \E i \in ProxyReqs : \E r \in BusinessResponses : RetryResponse(i, r)
    \/ Tick

SpecManager == InitManager /\ [][NextManager]_vars

\* A token endpoint that rejects every refresh_token grant (the refresh
\* tokens it handed out are revoked) and accepts the password grant: what
\* it can answer to the token request of process i.
RevokedResponses(i) ==
    {r \in TokenResponses(i, proc[i].posts) :
        IF proc[i].grant.grant_type = "refresh_token"
        THEN r.status = 400
        ELSE Granted(r)}

\* The same program in front of that token endpoint, with NReq requests,
\* so that a request can arrive after the acquisition of an earlier one
\* has failed.
NextRevoked ==
    \/ ManagerStartup
    \/ \E i \in Reqs : ManagerArrive(i)
    \/ \E i \in Procs : \E r \in RevokedResponses(i) :
          ManagerTokenResponse(i, r)
    \/ \E i \in Reqs : \E r \in BusinessResponses : ManagerResponse(i, r)
    \/ \E i \in Reqs : \E r \in BusinessResponses : RetryResponse(i, r)
    \/ Tick

SpecRevoked == InitManager /\ [][NextRevoked]_vars


\* ------------------- the proxy routes with a 401 retry, of either acquirer

InitRetry == InitProxy \/ InitManager

NextRetry ==
    \/ variant = "part_004" /\ NextProxy
    \/ variant \in {"part_002", "part_003"} /\ NextManager

SpecRetry == InitRetry /\ [][NextRetry]_vars


\* ------------- part_000 (lines 1-413): acquireOrRefreshToken without the
\* validation GET, behind the gate and the per-tool routes

\* Mutant of DirectOk: status 200 is enough, whatever the body holds.
DirectOk_AnyBody(r) == r.status = 200

\* part_000:109 / index.js:812 - a token response that is accepted.
DirectOk(r) == r.status = 200 /\ r.access_token # Null

\* part_000:98-128 - the token endpoint has answered (or the request
\* failed): status 200 with access_token commits at once and returns
\* true; another resolved (2xx) answer returns false from the else branch,
\* which leaves the store alone; a rejection of axios runs the catch block.
\* body is the body the caller's route handler reads on a return of true.
DirectTokenResponse(i, r, body) ==
    /\ variant = "part_000"
    /\ proc[i].pc = "tokenPost"
    /\ IF DirectOk(r)
       THEN /\ tokenStore' = Commit(tokenStore, r, now)
            /\ storedVia' = 0
            /\ storedFrom' = <<now, r.expires_in>>
            /\ proc' = [proc EXCEPT ![i] =
                          Continue(variant, proc[i], TRUE, tokenStore', body)]
       ELSE IF r.status >= 200 /\ r.status < 300
       THEN /\ proc' = [proc EXCEPT ![i] =
                          Continue(variant, proc[i], FALSE, tokenStore, "none")]
            /\ UNCHANGED <<tokenStore, storedVia, storedFrom>>
       ELSE FailAcquire(i, proc[i])
    /\ UNCHANGED <<variant, INITIAL_REFRESH_TOKEN, now, ticks>>

InitDirect ==
    /\ variant = "part_000"
    /\ INITIAL_REFRESH_TOKEN \in {DEFAULT_TOKEN, PLACEHOLDER}
    /\ InitCommon

NextDirect ==
    \/ Startup
    \/ \E i \in Reqs : \E body \in Bodies(variant) : GateArrive(i, body)
    \/ \E i \in Procs : \E r \in TokenResponses(i, proc[i].posts) :
          \E body \in Bodies(variant) : DirectTokenResponse(i, r, body)
    \/ \E i \in Reqs : \E r \in BusinessResponses : ToolRouteResponse(i, r)
    \/ Tick

SpecDirect == InitDirect /\ [][NextDirect]_vars


\* ------------- index.js (lines 729-1304): the variant with axios-retry

\* index.js:752 - retries: 3.
RETRIES == 3

\* index.js:754 - retryCondition: a network error that may be retried, or
\* an answer with status >= 500.  Status 0 stands for a request without an
\* answer; retryable tells a failed connection (retried) from a timeout
\* (code ECONNABORTED, which isNetworkOrIdempotentRequestError excludes).
RetryCondition(st, retryable) == st >= 500 \/ (st = 0 /\ retryable)

\* What the token endpoint can answer to one transmission of the token
\* POST: as above, or a server error.
RetriedTokenResponses(i, n) ==
    TokenResponses(i, n) \cup
    {[status |-> 500, access_token |-> Null, error |-> TRUE,
      refresh_token |-> Null, expires_in |-> Null]}

\* The outcomes of one transmission as the retry condition tells them
\* apart: only a request without an answer is a failed connection or a
\* timeout.
Retryables(st) == IF st = 0 THEN BOOLEAN ELSE {FALSE}

\* The pending call of p has settled for acquireOrRefreshToken or the
\* route handler: the retry state kept in its request config is gone.
Settled(p) == [p EXCEPT !.retryCount = 0]

\* index.js:804-832 under axios-retry - a transmission of the token POST
\* has settled: the interceptor sends it again (after retryCount * 1000 ms)
\* while the retry condition holds and fewer than RETRIES retries were
\* made; otherwise the answer reaches acquireOrRefreshToken, which goes on
\* to the validation GET or throws into the catch block.  retryCount is
\* the counter axios-retry keeps in the config of the pending request.
RetriedTokenResponse(i, r, retryable) ==
    /\ variant = "index_retry"
    /\ proc[i].pc = "tokenPost"
    /\ IF RetryCondition(r.status, retryable) /\ proc[i].retryCount < RETRIES
       THEN /\ proc' = [proc EXCEPT ![i].retryCount = @ + 1]
            /\ UNCHANGED <<tokenStore, storedVia, storedFrom>>
       ELSE IF DirectOk(r)
       THEN /\ proc' = [proc EXCEPT ![i] =
                         [@ EXCEPT !.pc = "validating", !.gets = @ + 1,
                                   !.retryCount = 0,
                                   !.cand = [access_token |-> r.access_token,
                                             refresh_token |-> r.refresh_token,
                                             expires_in |-> r.expires_in]]]
            /\ UNCHANGED <<tokenStore, storedVia, storedFrom>>
       ELSE FailAcquire(i, Settled(proc[i]))
    /\ UNCHANGED <<variant, INITIAL_REFRESH_TOKEN, now, ticks>>

\* index.js:815-829 under axios-retry - a transmission of the validation
\* GET has settled.  The request body is what the route handler finds
\* when the gate lets the request through.
RetriedValidationResponse(i, st, retryable) ==
    /\ variant = "index_retry"
    /\ proc[i].pc = "validating"
    /\ IF RetryCondition(st, retryable) /\ proc[i].retryCount < RETRIES
       THEN /\ proc' = [proc EXCEPT ![i].retryCount = @ + 1]
            /\ UNCHANGED <<tokenStore, storedVia, storedFrom>>
       ELSE IF ValidationOk(st)
       THEN /\ tokenStore' = Commit(tokenStore, proc[i].cand, now)
            /\ storedVia' = st
            /\ storedFrom' = <<now, proc[i].cand.expires_in>>
            /\ \E body \in Bodies(variant) :
                  proc' = [proc EXCEPT ![i] =
                             Continue(variant, Settled(proc[i]), TRUE,
                                      tokenStore', body)]
       ELSE FailAcquire(i, Settled(proc[i]))
    /\ UNCHANGED <<variant, INITIAL_REFRESH_TOKEN, now, ticks>>

\* index.js:996-1003 (createPatient and the other per-tool routes) under
\* axios-retry - a transmission of the business call has settled.
RetriedRouteResponse(i, st, retryable) ==
    /\ variant = "index_retry"
    /\ proc[i].pc = "calling"
    /\ IF RetryCondition(st, retryable) /\ proc[i].retryCount < RETRIES
       THEN proc' = [proc EXCEPT ![i].retryCount = @ + 1]
       ELSE IF st >= 200 /\ st < 300
       THEN \E r \in BusinessResponses :
               /\ r.status = st
               /\ proc' = [proc EXCEPT ![i] =
                             Respond(Settled(@), 200,
                                     HandleSfdResponse(r.status, r.dataError))]
       ELSE proc' = [proc EXCEPT ![i] = Respond(Settled(@), 200, "error")]
    /\ UNCHANGED <<variant, INITIAL_REFRESH_TOKEN,
                   tokenStore, now, ticks, storedVia, storedFrom>>

InitRetried ==
    /\ variant = "index_retry"
    /\ INITIAL_REFRESH_TOKEN \in {DEFAULT_TOKEN, PLACEHOLDER}
    /\ InitCommon

NextRetried ==
    \/ Startup
    \/ \E i \in ProxyReqs : \E body \in Bodies(variant) : GateArrive(i, body)
    \/ \E i \in Procs : \E r \in RetriedTokenResponses(i, proc[i].posts) :
          \E retryable \in Retryables(r.status) :
             RetriedTokenResponse(i, r, retryable)
    \/ \E i \in Procs : \E st \in ValidationStatuses :
          \E retryable \in Retryables(st) :
             RetriedValidationResponse(i, st, retryable)
    \/ \E i \in ProxyReqs : \E st \in BusinessStatuses :
          \E retryable \in Retryables(st) :
             RetriedRouteResponse(i, st, retryable)
    \/ Tick

SpecRetried == InitRetried /\ [][NextRetried]_vars


\* ------------------------------------------------ timeouts and fairness

\* Whether the axios calls of a file carry a timeout option: index.js:110,
\* 129, 347 (1800000 ms), part_004:112, 130, 296, part_005:125, 144, 241
\* do; part_003:60-68, 181-195 and part_002:84-93, 272-286 pass none, and
\* axios then waits without limit.
Bounded(v) == v \notin {"part_002", "part_003"}

\* The outstanding call of process i settles: an answer arrives, the
\* connection fails or the timer fires (status 0).
Settle(i) ==
    \/ \E r \in TokenResponses(i, proc[i].posts) : TokenResponse(i, r)
    \/ \E st \in ValidationStatuses :
          \E body \in Bodies(variant) : ValidationResponse(i, st, body)
    \/ \E r \in BusinessResponses : ToolRouteResponse(i, r)

ManagerSettle(i) ==
    \/ \E r \in TokenResponses(i, proc[i].posts) : ManagerTokenResponse(i, r)
    \/ \E r \in BusinessResponses : ManagerResponse(i, r)
    \/ \E r \in BusinessResponses : RetryResponse(i, r)

\* The upstream may never answer; only a timer makes a call settle.
SpecLive ==
    Spec /\ \A i \in Procs : WF_vars(Bounded(variant) /\ Settle(i))

SpecManagerLive ==
    SpecManager /\ \A i \in Procs : WF_vars(Bounded(variant) /\ ManagerSettle(i))


\* =================================================================== claims

\* acquireOrRefreshToken, called by process i, returns in this step.
Returned(i) ==
    \/ proc[i].pc \in {"tokenPost", "validating"}
         /\ proc'[i].pc \notin {"tokenPost", "validating"}
    \/ proc[i].pc = "idle" /\ proc'[i].pc \notin {"idle", "tokenPost"}
         /\ proc'[i].acq # "none"
    \/ proc[i].pc = "calling" /\ proc'[i].phase = "retry"
         /\ proc'[i].pc # "tokenPost"

\* The gate lets request i proceed in this step.
GatePasses(i) == proc[i].gate = "none" /\ proc'[i].gate = "true"

\* C1: whenever the gate lets a request proceed, the token it attaches
\* satisfies now < expiresAt - 5 min at that moment.
C1_GateTokenFresh ==
    [][\A i \in Reqs : GatePasses(i) => CacheValid(tokenStore', now')]_vars

\* C2: a business call is issued only after the gate's acquisition returned
\* true for that request, and its Authorization header holds the non-null,
\* validated access token of the store; when the acquisition returns false
\* the gate replies with an error entry and no business call is made.
C2_CallOnlyBehindGate ==
    [][\A i \in Reqs :
         /\ proc'[i].calls > proc[i].calls =>
               /\ proc'[i].gate = "true"
               /\ tokenStore'.accessToken # Null
               /\ proc'[i].auth = Bearer(tokenStore'.accessToken)
               /\ storedVia' = 200
         /\ (proc[i].gate = "none" /\ proc'[i].gate = "false") =>
               /\ proc'[i].pc = "done"
               /\ proc'[i].resp = [status |-> 200, kind |-> "error"]
         /\ proc'[i].gate = "false" => proc'[i].calls = 0]_vars

\* C2 witness: a request's business call is in flight behind the gate, with
\* the token its own acquisition stored, while another request was refused.
C2_Witness ==
    \E i, j \in Reqs :
        /\ proc[i].pc = "calling" /\ proc[i].posts = 1
        /\ proc[i].auth # Bearer(Null)
        /\ proc[j].gate = "false"

C4_StoredTokenValidated ==
    /\ tokenStore.accessToken # Null => storedVia = 200
    /\ \A i \in Procs :
          proc[i].pc = "validating" =>
              tokenStore.accessToken # proc[i].cand.access_token

\* C4 witness: a candidate awaits its validation while the store holds the
\* validated token of an earlier acquisition.
C4_Witness ==
    \E i \in Procs :
        /\ proc[i].pc = "validating" /\ proc[i].gets = 1
        /\ tokenStore.accessToken # Null
        /\ storedVia = 200

\* C5: when an acquisition succeeds and the token response carries no
\* refresh_token, tokenStore.refreshToken is what it was before the call;
\* when it carries one, refreshToken becomes that value; accessToken and
\* expiresAt are replaced.
C5_RefreshTokenRetained ==
    [][\A i \in Procs :
         (proc[i].pc = "validating" /\ Returned(i) /\ proc'[i].acq = "true") =>
             /\ proc[i].cand.refresh_token = Null =>
                    tokenStore'.refreshToken = proc[i].rtEntry
             /\ proc[i].cand.refresh_token # Null =>
                    tokenStore'.refreshToken = proc[i].cand.refresh_token
             /\ tokenStore'.accessToken = proc[i].cand.access_token
             /\ tokenStore'.expiresAt =
                    ExpiresAt(now, proc[i].cand.expires_in)]_vars

\* C6: in the generic proxy route, a 401 on the first upstream call causes
\* one forced acquisition; the request is re-issued once when it succeeds
\* and answered with an error when it fails; the answer to the re-issued
\* call ends the request; at most 2 upstream business calls are made per
\* inbound request.
C6_SingleRetry ==
    [][\A i \in ProxyReqs :
         /\ proc'[i].calls <= 2 /\ proc'[i].forced <= 1
         /\ proc'[i].forced > proc[i].forced =>
                proc[i].pc = "calling" /\ proc[i].calls = 1
         /\ (proc[i].calls = 1 /\ proc'[i].calls = 2) =>
                /\ proc'[i].pc = "retrying"
                /\ proc'[i].forced = 1 /\ proc'[i].acq = "true"
         /\ (proc[i].forced = 1 /\ Returned(i) /\ proc'[i].acq = "true") =>
                proc'[i].pc = "retrying" /\ proc'[i].calls = 2
         /\ (proc[i].forced = 1 /\ Returned(i) /\ proc'[i].acq = "false") =>
                /\ proc'[i].pc = "done"
                /\ proc'[i].resp = [status |-> 200, kind |-> "error"]
         /\ (proc[i].pc = "retrying" /\ proc'[i] # proc[i]) =>
                proc'[i].pc = "done"]_vars

\* C6 witness: after a 401 and a successful forced acquisition, the
\* re-issued call is in flight with the new token.
C6_Witness ==
    \E i \in ProxyReqs :
        /\ variant = "part_004"
        /\ proc[i].pc = "retrying" /\ proc[i].calls = 2
        /\ proc[i].forced = 1 /\ proc[i].acq = "true"
        /\ proc[i].auth = Bearer(tokenStore.accessToken)

\* C7: when requests enter the gate while the cache is invalid and no
\* acquisition has completed yet, exactly one POST to the token endpoint is
\* issued in total.
C7_SingleFlight ==
    (\A j \in Procs : proc[j].acq = "none") =>
        Cardinality({i \in Reqs : proc[i].posts > 0}) <= 1

\* C8: every response sent for a POST to the /api/tool dispatcher has HTTP
\* status 200.
C8_AlwaysStatus200 ==
    \A i \in Reqs : proc[i].sent > 0 => proc[i].resp.status = 200

\* C9: the grant of a token request is the refresh_token grant with the
\* cached refresh token if there is one; otherwise the refresh_token grant
\* with the configured bootstrap token if one is configured; otherwise the
\* password grant.
C9_GrantPriority ==
    [][\A i \in Procs :
         (proc[i].pc # "tokenPost" /\ proc'[i].pc = "tokenPost") =>
             /\ tokenStore.refreshToken # Null =>
                    proc'[i].grant = [grant_type |-> "refresh_token",
                                      refresh_token |-> tokenStore.refreshToken]
             /\ (tokenStore.refreshToken = Null
                     /\ INITIAL_REFRESH_TOKEN # PLACEHOLDER) =>
                    proc'[i].grant = [grant_type |-> "refresh_token",
                                      refresh_token |-> INITIAL_REFRESH_TOKEN]
             /\ (tokenStore.refreshToken = Null
                     /\ INITIAL_REFRESH_TOKEN = PLACEHOLDER) =>
                    proc'[i].grant.grant_type = "password"]_vars

\* C9 witness: with a bootstrap token configured, a token request is in
\* flight that carries a refresh token taken from the cache.
C9_Witness ==
    \E i \in Procs :
        /\ proc[i].pc = "tokenPost"
        /\ INITIAL_REFRESH_TOKEN # PLACEHOLDER
        /\ proc[i].grant.grant_type = "refresh_token"
        /\ proc[i].grant.refresh_token \notin InitialTokens

\* C10: an acquisition that finds the cache empty and no refresh token in
\* the cache or in configuration (the file configures no password: it
\* carries placeholder credentials) ends at once, returning false, without
\* a token request.
C10_NoCredentialNoRequest ==
    [][\A i \in Procs :
         (proc[i].pc = "idle" /\ proc'[i].pc # "idle"
              /\ tokenStore = EmptyStore
              /\ INITIAL_REFRESH_TOKEN = PLACEHOLDER) =>
             /\ proc'[i].posts = 0
             /\ proc'[i].acq = "false"]_vars

\* C11: a non-forced call of acquireOrRefreshToken that finds an access
\* token in the cache with now < expiresAt - 5 min returns true, sends no
\* HTTP request and leaves the three fields of tokenStore unchanged.
C11_FastPathFrame ==
    [][\A i \in Procs :
         (/\ proc[i].pc = "idle" /\ proc'[i].pc # "idle"
          /\ tokenStore.accessToken # Null
          /\ IsMs(tokenStore.expiresAt)
          /\ now < MsOf(tokenStore.expiresAt) - 300000) =>
             /\ proc'[i].acq = "true"
             /\ proc'[i].pc \notin {"tokenPost", "validating"}
             /\ proc'[i].posts = 0 /\ proc'[i].gets = 0
             /\ tokenStore' = tokenStore]_vars

\* C11 witness: a request went through the gate on the cached token: its
\* business call is in flight and it sent no token request.
C11_Witness ==
    \E i \in Reqs :
        /\ proc[i].pc = "calling" /\ proc[i].acq = "true"
        /\ proc[i].posts = 0 /\ proc[i].gets = 0
        /\ proc[i].auth = Bearer(tokenStore.accessToken)
        /\ tokenStore.accessToken # Null

\* C12: when the token endpoint answers with a status other than 200, or
\* with 200 and an error object in the body (with or without access_token),
\* acquireOrRefreshToken returns false, makes no validation call and stores
\* nothing from that response.
C12_GrantRejected ==
    [][\A i \in Procs :
         (/\ proc[i].pc = "tokenPost" /\ proc'[i].pc # "tokenPost"
          /\ \E r \in TokenResponses(i, proc[i].posts) :
                (r.status # 200 \/ r.error) /\ TokenResponse(i, r)) =>
             /\ proc'[i].acq = "false"
             /\ proc'[i].pc # "validating"
             /\ proc'[i].gets = 0
             /\ tokenStore'.accessToken = Null
             /\ tokenStore'.refreshToken = Null
             /\ tokenStore'.expiresAt = Null]_vars

\* C12 witness: the gate refused a request whose acquisition returned
\* false and left the store empty, before any process committed a token.
C12_Witness ==
    \E i \in Reqs :
        /\ proc[i].acq = "false" /\ proc[i].gate = "false"
        /\ proc[i].resp = [status |-> 200, kind |-> "error"]
        /\ tokenStore = EmptyStore
        /\ \A j \in Procs : proc[j].acq # "true"

\* C13: one invocation of acquireOrRefreshToken sends at most one POST to
\* the token endpoint, when it begins, and at most one validation GET, on
\* the answer to that POST; a failure returns false at once, with no second
\* token request and no other grant.
C13_OneAttempt ==
    [][\A i \in Procs :
         /\ proc'[i].posts <= 1 /\ proc'[i].gets <= 1
         /\ proc'[i].posts > proc[i].posts => proc[i].pc = "idle"
         /\ proc'[i].gets > proc[i].gets => proc[i].pc = "tokenPost"
         /\ (proc[i].pc = "tokenPost" /\ proc'[i].pc \in {"tokenPost", "validating"})
               => proc'[i].grant = proc[i].grant
         /\ (proc[i].pc = "validating" /\ proc'[i] # proc[i]) =>
               proc'[i].pc \notin {"tokenPost", "validating"}
         /\ (proc[i].pc \in {"tokenPost", "validating"}
                 /\ proc'[i].acq = "false") =>
               proc'[i].pc = "done"]_vars

\* C13 witness: the startup acquisition sent the refresh_token grant with
\* the bootstrap token, failed and returned false; nothing else has run.
C13_Witness ==
    /\ INITIAL_REFRESH_TOKEN # PLACEHOLDER
    /\ proc[0].pc = "done" /\ proc[0].acq = "false"
    /\ tokenStore = EmptyStore
    /\ \A j \in Reqs : proc[j].pc = "idle"

\* C14: a failed acquisition at startup leaves an empty cache and the
\* requests untouched; a request that enters the gate after any earlier
\* failure (at startup or on a previous request), the cache not being
\* valid, starts a new acquisition attempt.
C14_LazyRetry ==
    [][/\ (proc[0].pc # "done" /\ proc'[0].pc = "done"
               /\ proc'[0].acq = "false") =>
             /\ tokenStore' = EmptyStore
             /\ \A j \in Reqs : proc'[j] = proc[j]
       /\ \A i \in Reqs :
             (/\ proc[i].pc = "idle" /\ proc'[i].pc # "idle"
              /\ \E j \in Procs : proc[j].acq = "false"
              /\ ~(/\ tokenStore.accessToken # Null
                    /\ IsMs(tokenStore.expiresAt)
                    /\ now < MsOf(tokenStore.expiresAt) - 300000)) =>
                 /\ proc'[i].pc = "tokenPost"
                 /\ proc'[i].posts = 1]_vars

\* C14 witness: the startup acquisition and every earlier request failed,
\* and a later request has its own token request in flight.
C14_Witness ==
    \E i \in Reqs :
        /\ proc[i].pc = "tokenPost" /\ proc[i].posts = 1
        /\ \A j \in Procs :
              j < i => proc[j].pc = "done" /\ proc[j].acq = "false"
        /\ i > 1

\* C15: tokenStore is written only inside acquireOrRefreshToken: a step
\* that changes it is the answer to some process's token POST or
\* validation GET, and the steps of the gate, of the route handler, of the
\* 401-retry path and of the response helpers leave it unchanged.
C15_StoreWrittenByAcquirer ==
    [][/\ tokenStore' # tokenStore =>
             \E i \in Procs :
                 /\ proc[i].pc \in {"tokenPost", "validating"}
                 /\ proc'[i].pc \notin {"tokenPost", "validating"}
                 /\ proc'[i].acq # "none"
       /\ \A i \in Procs :
             (proc[i].pc \in {"idle", "calling", "retrying"}
                 /\ proc'[i] # proc[i]) => tokenStore' = tokenStore]_vars

\* C15 witness: a request went through the gate, a 401, the forced
\* acquisition and the retried call, was answered with an error entry, and
\* the store still holds the token of that acquisition.
C15_Witness ==
    \E i \in ProxyReqs :
        /\ variant = "part_004"
        /\ proc[i].pc = "done" /\ proc[i].phase = "retry"
        /\ proc[i].acq = "true"
        /\ proc[i].resp = [status |-> 200, kind |-> "error"]
        /\ tokenStore.accessToken = AccessTokenOf(i, 2)

\* C16: every invocation of the token acquirer and every inbound request
\* eventually completes, even when the upstream never answers: a process
\* that has started reaches its end.
C16_Terminates ==
    \A i \in Procs : (proc[i].pc # "idle") ~> (proc[i].pc = "done")

\* The token endpoint rejects the token request of process i in this step.
Rejected(i) ==
    \E r \in TokenResponses(i, proc[i].posts) :
        /\ r.status >= 400
        /\ IF variant = "part_004" THEN TokenResponse(i, r)
                                   ELSE ManagerTokenResponse(i, r)

C18_ToolRetryOn401 ==
    [][\A i \in Reqs :
         (/\ proc[i].pc = "calling"
          /\ \E r \in BusinessResponses :
                r.status = 401 /\ ToolRouteResponse(i, r)) =>
             /\ proc'[i].pc = "tokenPost"
             /\ proc'[i].forced = 1]_vars

\* C19: a successful acquisition at time t with expires_in = e seconds
\* stores expiresAt = t + 1000*e - 300000 ms; a later non-forced call takes
\* the fast path exactly when accessToken is set and
\* now < t + 1000*e - 600000; for e <= 600 it never does and sends a new
\* token request.
C19_DoubleSkew ==
    [][\A i \in Procs :
         /\ (proc[i].pc = "validating" /\ proc'[i].pc # "validating"
                 /\ proc'[i].acq = "true") =>
               tokenStore'.expiresAt =
                   <<"ms", now + 1000 * proc[i].cand.expires_in[2] - 300000>>
         /\ (proc[i].pc = "idle" /\ proc'[i].pc # "idle") =>
               /\ proc'[i].pc # "tokenPost" <=>
                     /\ tokenStore.accessToken # Null
                     /\ storedFrom # Null
                     /\ now < storedFrom[1] + 1000 * storedFrom[2][2] - 600000
               /\ (storedFrom # Null /\ storedFrom[2][2] <= 600) =>
                     proc'[i].pc = "tokenPost" /\ proc'[i].posts = 1]_vars

\* C19 witness: the startup acquisition stored a token with expires_in =
\* 600, and a request that came after it, without any clock advance, has a
\* token request in flight with the refresh token of that commit.
C19_Witness ==
    /\ storedFrom = <<now, Sec(600)>>
    /\ tokenStore.accessToken = AccessTokenOf(0, 1)
    /\ tokenStore.refreshToken = RefreshTokenOf(0, 1)
    /\ \E i \in Reqs :
          /\ proc[i].pc = "tokenPost"
          /\ proc[i].grant.refresh_token = RefreshTokenOf(0, 1)

\* C20: in the proxy route of the refreshToken manager, when the first
\* upstream call is answered with 401 and refreshToken('refresh_token')
\* succeeds, the retried request carries the access token now in the
\* store, not the one that was rejected.
C20_RetryCarriesNewToken ==
    [][\A i \in ProxyReqs :
         (proc[i].pc # "retrying" /\ proc'[i].pc = "retrying") =>
             /\ proc'[i].auth = Bearer(tokenStore'.accessToken)
             /\ proc'[i].auth # proc[i].auth]_vars

\* C21: in part_000, a step that puts a new access token into the store is
\* the answer to the validation call made with that token, and the call
\* accepted it.
C21_CommitAfterValidation ==
    [][(tokenStore'.accessToken # Null
            /\ tokenStore'.accessToken # tokenStore.accessToken) =>
          /\ storedVia' = 200
          /\ \E i \in Procs :
                /\ proc[i].pc = "validating"
                /\ proc[i].cand.access_token = tokenStore'.accessToken]_vars

\* C22: in part_000, after any invocation of acquireOrRefreshToken that
\* returns false the three fields of the store are null, also when the
\* token endpoint answered 2xx without access_token while the store held
\* an older credential.
C22_DirectFailureClearsStore ==
    [][\A i \in Procs :
         (Returned(i) /\ proc'[i].acq = "false") =>
             tokenStore' = EmptyStore]_vars

\* C23: in the variant with axios-retry, one invocation of
\* acquireOrRefreshToken puts a single POST to the token endpoint and a
\* single validation GET on the wire, also when the upstream answers 5xx
\* or the connection fails.
C23_SingleTransmission ==
    \A i \in Procs :
        proc[i].pc \in {"tokenPost", "validating"} =>
            1 + proc[i].retryCount <= 1

\* C24: in the /api/tool dispatcher, a token request that starts while the
\* cache holds no refresh token carries the refresh_token grant with the
\* bootstrap token (the environment's value or the built-in default), and
\* not the password grant.
C24_BootstrapBeforePassword ==
    [][\A i \in Procs :
         (/\ proc[i].pc # "tokenPost" /\ proc'[i].pc = "tokenPost"
          /\ tokenStore.refreshToken = Null) =>
             proc'[i].grant = [grant_type |-> "refresh_token",
                               refresh_token |-> INITIAL_REFRESH_TOKEN]]_vars

\* C25: in the /api/tool dispatcher, the answer to a business call is
\* reported as one entry that is either a result or an error, and an
\* upstream answer with status >= 400 is reported as an error entry.
C25_ErrorStatusIsError ==
    [][\A i \in Reqs :
         (proc[i].pc = "calling" /\ proc'[i].pc = "done") =>
             /\ proc'[i].resp.kind \in {"result", "error"}
             /\ (\E r \in BusinessResponses :
                    r.status >= 400 /\ ToolResponse(i, r)) =>
                        proc'[i].resp.kind = "error"]_vars

\* C26: in every state between the asynchronous steps of
\* acquireOrRefreshToken, under any interleaving of concurrent invocations,
\* accessToken is non-null exactly when expiresAt is non-null, and a
\* non-null refreshToken comes with a non-null accessToken.
C26_StoreNeverHalfUpdated ==
    /\ tokenStore.accessToken # Null <=> tokenStore.expiresAt # Null
    /\ tokenStore.refreshToken # Null => tokenStore.accessToken # Null

\* C26 witness: the store holds the three fields of one commit while two
\* other invocations are in flight, one awaiting its token POST and one its
\* validation GET.
C26_Witness ==
    /\ tokenStore.accessToken # Null
    /\ tokenStore.refreshToken # Null
    /\ IsMs(tokenStore.expiresAt)
    /\ \E i, j \in Procs :
          proc[i].pc = "tokenPost" /\ proc[j].pc = "validating"

\* C27: acquireOrRefreshToken(true) always sends a token request, also
\* when the cache holds a token with now < expiresAt - 5 min: it does not
\* return in the step of the call and leaves the store as it is.
C27_ForceSkipsFastPath ==
    [][\A i \in ProxyReqs :
         proc'[i].forced > proc[i].forced =>
             /\ proc'[i].pc = "tokenPost"
             /\ proc'[i].posts = proc[i].posts + 1
             /\ proc'[i].acq = proc[i].acq
             /\ tokenStore' = tokenStore]_vars

\* C27 witness: the token request of a forced refresh is in flight while
\* the cache holds a token with now < expiresAt - 5 min.
C27_Witness ==
    \E i \in ProxyReqs :
        /\ proc[i].pc = "tokenPost" /\ proc[i].phase = "retry"
        /\ proc[i].forced = 1
        /\ tokenStore.accessToken # Null
        /\ IsMs(tokenStore.expiresAt)
        /\ now < MsOf(tokenStore.expiresAt) - 300000

\* The store holds the access token and the refresh token of one commit,
\* and the acquisition of process j began before that commit: the refresh
\* token it found in the cache when it began is not the one of the commit.
InFlightAtCommit(j) ==
    /\ proc[j].pc \in {"tokenPost", "validating"}
    /\ tokenStore.accessToken # Null
    /\ tokenStore.refreshToken # Null
    /\ tokenStore.refreshToken[2] = tokenStore.accessToken[2]
    /\ tokenStore.refreshToken[3] = tokenStore.accessToken[3]
    /\ proc[j].rtEntry # tokenStore.refreshToken

\* C28: a credential committed by one acquisition is not erased by the
\* failure of another acquisition that was in flight when it was committed.
C28_CommitSurvivesOlderFailure ==
    [][\A j \in Procs :
         (InFlightAtCommit(j) /\ Returned(j) /\ proc'[j].acq = "false") =>
             tokenStore' = tokenStore]_vars

\* The grant of a token request made from configuration alone: the
\* refresh_token grant with the bootstrap token, or the password grant
\* when no bootstrap token is configured.
ConfiguredGrant ==
    IF INITIAL_REFRESH_TOKEN # PLACEHOLDER
    THEN [grant_type |-> "refresh_token",
          refresh_token |-> INITIAL_REFRESH_TOKEN]
    ELSE [grant_type |-> "password", refresh_token |-> Null]

C30_GateFallsBackToPassword ==
    [][\A i \in Reqs :
         (/\ proc[i].pc = "idle" /\ proc'[i].pc = "tokenPost"
          /\ \E j \in Procs : proc[j].acq = "false"
          /\ tokenStore.accessToken = Null) =>
             proc'[i].grant.grant_type = "password"]_vars

\* C31: every request to the gated generic proxy route is answered exactly
\* once, whatever the outcomes: each step of its gate or handler either
\* leaves one HTTP call pending and no response sent, or sends the one
\* response and ends; nothing runs for a request once it is answered, and
\* the handler does not run when the gate has responded.
C31_ExactlyOneResponse ==
    [][\A i \in ProxyReqs :
         /\ proc'[i].sent <= 1
         /\ proc'[i].sent = 1 <=> proc'[i].pc = "done"
         /\ proc'[i].pc \in {"idle", "tokenPost", "validating", "calling",
                               "retrying", "done"}
         /\ proc[i].pc = "done" => proc'[i] = proc[i]
         /\ (proc[i].gate = "none" /\ proc'[i].gate = "false") =>
                proc'[i].pc = "done" /\ proc'[i].calls = 0]_vars

\* C31 witness: a request went through the gate, a 401, a successful
\* forced refresh and a retried call that ended in an error entry, and was
\* answered once.
C31_Witness ==
    \E i \in ProxyReqs :
        /\ variant = "part_004"
        /\ proc[i].pc = "done" /\ proc[i].sent = 1
        /\ proc[i].gate = "true" /\ proc[i].phase = "retry"
        /\ proc[i].acq = "true"
        /\ proc[i].resp.kind = "error"

\* C32: in the variant with axios-retry, acquireOrRefreshToken resolves to
\* true or false for every upstream outcome, and to true only when
\* tokenStore.accessToken is non-null at that moment; the gate that awaits
\* it then either responds or calls next(), which runs the route handler
\* with the stored token in the Authorization header.
C32_AcquireAlwaysResolves ==
    [][\A i \in Procs :
         Returned(i) =>
             /\ proc'[i].acq \in {"true", "false"}
             /\ proc'[i].acq = "true" => tokenStore'.accessToken # Null
             /\ proc'[i].phase = "gate" =>
                   \/ /\ proc'[i].acq = "false" /\ proc'[i].gate = "false"
                      /\ proc'[i].pc = "done" /\ proc'[i].sent = 1
                   \/ /\ proc'[i].acq = "true" /\ proc'[i].gate = "true"
                      /\ \/ proc'[i].pc = "done" /\ proc'[i].sent = 1
                         \/ /\ proc'[i].pc = "calling"
                            /\ proc'[i].auth = Bearer(tokenStore'.accessToken)]_vars

\* C32 witness: after the startup acquisition resolved to true, the
\* acquisition of a request resolved to false and the gate answered with
\* an error entry.
C32_Witness ==
    \E i \in ProxyReqs :
        /\ variant = "index_retry"
        /\ proc[i].pc = "done" /\ proc[i].phase = "gate"
        /\ proc[i].acq = "false" /\ proc[i].gate = "false"
        /\ proc[i].resp = [status |-> 200, kind |-> "error"]
        /\ proc[0].acq = "true"

\* C33: in the gated proxy, the Authorization header of every business
\* call that goes upstream, the first call and the one repeated after a
\* 401, is "Bearer " followed by tokenStore.accessToken as it stands when
\* the call is sent; the header the caller supplied has no part in it.
C33_UpstreamHeaderFromStore ==
    [][\A i \in ProxyReqs :
         proc'[i].calls > proc[i].calls =>
             /\ tokenStore'.accessToken # Null
             /\ proc'[i].auth = Bearer(tokenStore'.accessToken)
             /\ proc'[i].auth # Bearer(CallerToken)]_vars

\* C33 witness: a request that arrived with a credential of its caller is
\* on its second upstream call, after a 401, with the stored token.
C33_Witness ==
    \E i \in ProxyReqs :
        /\ proc[i].inbound = Bearer(CallerToken)
        /\ proc[i].pc = "retrying"
        /\ proc[i].calls = 2
        /\ proc[i].auth = Bearer(tokenStore.accessToken)

====
